---- MODULE Spec2Model ----
(***************************************************************************)
(* A model of the ArchivesSpace session client (src/archivesspace.py and   *)
(* its earlier revision src/aspy.py): login, generic GET/POST, pagination  *)
(* and the all-ids listing, run against a server that may answer every     *)
(* request with any status and any body.                                   *)
(***************************************************************************)
EXTENDS Integers, Sequences, FiniteSets, TLC

VARIABLES
    variant,        \* which revision of the module runs: "archivesspace" or "aspy"
    session,        \* self.session: the requests.Session (or None) and its session header
    sessionId,      \* self.sessionId ("unset" while the attribute does not exist)
    connection,     \* self.connection (Unset while the attribute does not exist)
    pc,             \* the caller: "idle" between calls, "paged" inside the loop of
                    \* pagedRequestGet, "done" when a call has just ended
    kwargs,         \* pagedRequestGet: the caller-supplied request data
    requestData,    \* pagedRequestGet: the request data of the first page
    numPages,       \* pagedRequestGet: last_page of the first response
    page,           \* pagedRequestGet: the loop variable
    fullSet,        \* pagedRequestGet: the accumulated records
    sent,           \* the HTTP requests the current (or last) call put on the wire
    recv,           \* the server's answer to each of them
    outcome,        \* how the last call ended
    everConnected,  \* history: some connect() has completed successfully
    loginToken,     \* history: token of the latest connect() if it succeeded
    merged          \* a standalone call of _unionRequestData: arguments and result

vars == <<variant, session, sessionId, connection, pc, kwargs, requestData,
          numPages, page, fullSet, sent, recv, outcome, everConnected,
          loginToken, merged>>

----------------------------------------------------------------------------
(* Bounds of the model *)

MaxPages == 3
RecordsPerPage == 2

Variants == {"archivesspace", "aspy"}
Tokens == {"tokA", "tokB"}
Statuses == {200, 400, 403, 404, 500, 502}

----------------------------------------------------------------------------
(* Request data: mappings from keys to values *)

EmptyData == [k \in {} |-> ""]

Mappings(keys, vals) == UNION {[ks -> vals] : ks \in SUBSET keys}

\* what a caller passes to requestGet, requestPost and pagedRequestGet
CallerParams ==
    {d \in Mappings({"page", "q"}, {"2", "x"}) :
        /\ "page" \in DOMAIN d => d["page"] = "2"
        /\ "q" \in DOMAIN d => d["q"] = "x"}

\* arguments of the standalone merge
MergeKeys == {"page", "q"}
MergeVals == {"1", "2"}

----------------------------------------------------------------------------
(* JSON values *)

Elem(t, n) == [type |-> t, v |-> n]

\* a response body: not JSON at all, a JSON object, or a JSON array
Body(isJson, t, ks, res, lp, its, tok) ==
    [json |-> isJson, type |-> t, keys |-> ks, results |-> res,
     last_page |-> lp, items |-> its, session |-> tok]

NonJson == Body(FALSE, "none", {}, <<>>, 0, <<>>, "")
Dict(ks, res, lp, tok) == Body(TRUE, "dict", ks, res, lp, <<>>, tok)
List(its) == Body(TRUE, "list", {}, <<>>, 0, its, "")
None == Body(TRUE, "None", {}, <<>>, 0, <<>>, "")
Unset == Body(FALSE, "unset", {}, <<>>, 0, <<>>, "")

----------------------------------------------------------------------------
(* str(page) *)

Digits == <<"0", "1", "2", "3", "4", "5", "6", "7", "8", "9">>

RECURSIVE str(_)
str(n) == IF n < 10 THEN Digits[n + 1]
          ELSE str(n \div 10) \o Digits[(n % 10) + 1]

----------------------------------------------------------------------------
(* The server *)

\* the records the server holds on page p
PageRecords(p) ==
    [i \in 1..RecordsPerPage |-> Elem("rec", (p - 1) * RecordsPerPage + i)]

\* the page a request selects: its 1-indexed `page` parameter, page 1 without one
PageOf(data) ==
    IF "page" \in DOMAIN data /\ \E n \in 1..(MaxPages + 1) : str(n) = data["page"]
    THEN CHOOSE n \in 1..(MaxPages + 1) : str(n) = data["page"]
    ELSE 1

IdLists ==
    { <<>>,
      <<Elem("int", 1), Elem("int", 2), Elem("int", 3)>>,
      <<Elem("int", 1), Elem("str", 0), Elem("int", 3)>>,
      <<Elem("int", 1), Elem("bool", 1), Elem("int", 3)>> }

LoginBodies ==
    {Dict({"session"}, <<>>, 0, t) : t \in Tokens}
        \cup {Dict({}, <<>>, 0, ""), NonJson}

DataBodies(data) ==
    {Dict(ks, IF "results" \in ks THEN PageRecords(PageOf(data)) ELSE <<>>,
              IF "last_page" \in ks THEN lp ELSE 0, "") :
        ks \in SUBSET {"results", "last_page"}, lp \in 1..MaxPages}
        \cup {List(l) : l \in IdLists}
        \cup {NonJson}

Response(r, s, b) == [reach |-> r, status_code |-> s, body |-> b]

Unreachable == Response(FALSE, 0, NonJson)

\* everything the network can do to one request
Responses(login, data) ==
    {Unreachable}
        \cup {Response(TRUE, s, b) : s \in Statuses \ {200},
                                     b \in {Dict({}, <<>>, 0, ""), NonJson}}
        \cup {Response(TRUE, 200, b) :
                 b \in IF login THEN LoginBodies ELSE DataBodies(data)}

----------------------------------------------------------------------------
(* How a call ends: it returns a value or raises an exception *)

Return(b) == [kind |-> "return", error |-> "", body |-> b]
Raise(e) == [kind |-> "raise", error |-> e, body |-> None]

\* response.json(): the parsed body, or the decoder's error
json(response) ==
    IF response.body.json THEN Return(response.body) ELSE Raise("JSONDecodeError")

\* logResponse evaluates response.json() before it logs
logResponse(response) == json(response)

\* body[key]
subscript(body, key) ==
    IF body.type = "dict"
    THEN IF key \in body.keys THEN Return(body) ELSE Raise("KeyError")
    ELSE Raise("TypeError")

\* isinstance(item, int): bool is a subclass of int
isinstanceInt(item) == item.type \in {"int", "bool"}

\* the items a for loop over a parsed body visits: the elements of an array,
\* the keys of an object
iterate(body) ==
    IF body.type = "list" THEN {body.items[i] : i \in 1..Len(body.items)}
    ELSE {Elem("str", 0) : k \in body.keys}

----------------------------------------------------------------------------
(* checkStatusCodes *)

\* checkStatusCodes with the final branch taken for a success
checkStatusCodesLenient(response) ==
    LET logged(e) == IF logResponse(response).kind = "raise"
                     THEN logResponse(response) ELSE Raise(e)
    IN  CASE response.status_code = 403 -> logged("AspaceForbidden")
          [] response.status_code = 400 -> logged("AspaceBadRequest")
          [] response.status_code = 404 -> logged("AspaceNotFound")
          [] response.status_code = 500 -> logged("AspaceError")
          [] OTHER -> json(response)

checkStatusCodes(response) ==
    LET logged(e) == IF logResponse(response).kind = "raise"
                     THEN logResponse(response) ELSE Raise(e)
    IN  CASE response.status_code = 403 -> logged("AspaceForbidden")
          [] response.status_code = 400 -> logged("AspaceBadRequest")
          [] response.status_code = 404 -> logged("AspaceNotFound")
          [] response.status_code = 500 -> logged("AspaceError")
          [] response.status_code = 200 -> json(response)
          [] OTHER -> logged("AspaceError")

\* the earlier revision does not log the body of a 404 or a 500
aspyCheckStatusCodes(response) ==
    LET logged(e) == IF logResponse(response).kind = "raise"
                     THEN logResponse(response) ELSE Raise(e)
    IN  CASE response.status_code = 403 -> logged("AspaceForbidden")
          [] response.status_code = 400 -> logged("AspaceBadRequest")
          [] response.status_code = 404 -> Raise("AspaceNotFound")
          [] response.status_code = 500 -> Raise("AspaceError")
          [] response.status_code = 200 -> json(response)
          [] OTHER -> logged("AspaceError")

statusCheck(v, response) ==
    IF v = "aspy" THEN aspyCheckStatusCodes(response)
    ELSE checkStatusCodes(response)

----------------------------------------------------------------------------
(* _unionRequestData: the three dictionaries after the call *)

\* dict.update
update(d, other) ==
    [k \in DOMAIN d \cup DOMAIN other |->
        IF k \in DOMAIN other THEN other[k] ELSE d[k]]

\* _unionRequestData with the two updates in the other order
unionRequestDataDefaultLast(defaultRequestData, newRequestData) ==
    LET passedData == newRequestData
    IN  [data |-> update(update(EmptyData, passedData), defaultRequestData),
         defaultRequestData |-> defaultRequestData,
         newRequestData |-> newRequestData]

unionRequestData(defaultRequestData, newRequestData) ==
    LET passedData == newRequestData
    IN  [data |-> update(update(EmptyData, defaultRequestData), passedData),
         defaultRequestData |-> defaultRequestData,
         newRequestData |-> newRequestData]

\* the earlier revision takes the caller's keyword arguments and merges
\* their `data` entry, if there is one
aspyUnionRequestData(defaultData, kw) ==
    LET passedData == IF "data" \in DOMAIN kw THEN kw["data"] ELSE EmptyData
    IN  [data |-> update(update(EmptyData, defaultData), passedData),
         defaultRequestData |-> defaultData,
         newRequestData |-> passedData]

\* the keyword arguments of a call that passes data=d
Kw(d) == [k \in {"data"} |-> d]

union(v, d, o) ==
    IF v = "aspy" THEN aspyUnionRequestData(d, Kw(o)).data
    ELSE unionRequestData(d, o).data

----------------------------------------------------------------------------
(* The session object *)

NoSession == [exists |-> FALSE, header |-> "absent"]

\* requests.Session()
NewSession == [exists |-> TRUE, header |-> "absent"]

\* a header update that is lost
headersUpdateLost(s, token) == s

\* session.headers.update({'X-ArchivesSpace-Session': sessionId})
headersUpdate(s, token) == [s EXCEPT !.header = token]

Request(method, login, header, enc, data) ==
    [method |-> method, login |-> login, header |-> header, enc |-> enc,
     data |-> data]

----------------------------------------------------------------------------
(* _request, requestGet, requestPost *)

\* what _request puts on the wire: nothing when self.session is None
requestSent(s, type, data) ==
    IF ~s.exists THEN <<>>
    ELSE <<Request(type, FALSE, s.header,
                   IF type = "post" THEN "json" ELSE "form", data)>>

\* _request returning the parsed body without looking at the status
requestUnchecked(v, s, type, data, response) ==
    IF ~s.exists THEN Raise("AttributeError")
    ELSE IF ~response.reach THEN Raise("ConnectionError")
    ELSE json(response)

\* how _request ends, given the server's answer
request(v, s, type, data, response) ==
    IF ~s.exists THEN Raise("AttributeError")
    ELSE IF ~response.reach THEN Raise("ConnectionError")
    ELSE statusCheck(v, response)

----------------------------------------------------------------------------
(* connect *)

\* the login request, sent on the new session
connectSent == <<Request("post", TRUE, NewSession.header, "form",
                         [k \in {"password"} |-> "secret"])>>

\* connect() creating its new session only once the login has succeeded
connectLateSession(v, self, response) ==
    LET r == IF ~response.reach THEN Raise("requests.ConnectionError")
             ELSE statusCheck(v, response)
        failed(e, conn) == [session |-> self.session, sessionId |-> self.sessionId,
                            connection |-> conn, result |-> e]
    IN  IF r.kind = "raise" THEN failed(r, self.connection)
        ELSE IF subscript(r.body, "session").kind = "raise"
        THEN failed(Raise(subscript(r.body, "session").error), r.body)
        ELSE [session |-> headersUpdate(NewSession, r.body.session),
              sessionId |-> r.body.session,
              connection |-> r.body,
              result |-> Return(None)]

\* the client after connect(), and how the call ended
connect(v, self, response) ==
    LET r == IF ~response.reach THEN Raise("requests.ConnectionError")
             ELSE statusCheck(v, response)
        failed(e, conn) == [session |-> NewSession, sessionId |-> self.sessionId,
                            connection |-> conn, result |-> e]
    IN  IF r.kind = "raise" THEN failed(r, self.connection)
        ELSE IF subscript(r.body, "session").kind = "raise"
        THEN failed(Raise(subscript(r.body, "session").error), r.body)
        ELSE [session |-> headersUpdate(NewSession, r.body.session),
              sessionId |-> r.body.session,
              connection |-> r.body,
              result |-> Return(None)]

----------------------------------------------------------------------------
(* pagedRequestGet *)

FirstPage == [k \in {"page"} |-> "1"]
PageData(n) == [k \in {"page"} |-> str(n)]

\* after the first response: the records so far, the page count, and the
\* exception if the response is not a paginated one
pagedFirst(body) ==
    LET res == subscript(body, "results")
        last == subscript(body, "last_page")
        stop(e) == [result |-> Raise(e), fullSet |-> <<>>, numPages |-> 0]
    IN  IF res.kind = "raise"
        THEN IF res.error = "KeyError" THEN stop("NotPaginated")
             ELSE stop(res.error)
        ELSE IF last.kind = "raise"
        THEN [result |-> Raise(last.error), fullSet |-> body.results,
              numPages |-> 0]
        ELSE [result |-> Return(None), fullSet |-> body.results,
              numPages |-> body.last_page]

\* the earlier revision turns every exception of response['results'] into
\* NotPaginated
aspyPagedFirst(body) ==
    LET res == subscript(body, "results")
        last == subscript(body, "last_page")
        stop(e) == [result |-> Raise(e), fullSet |-> <<>>, numPages |-> 0]
    IN  IF res.kind = "raise" THEN stop("NotPaginated")
        ELSE IF last.kind = "raise"
        THEN [result |-> Raise(last.error), fullSet |-> body.results,
              numPages |-> 0]
        ELSE [result |-> Return(None), fullSet |-> body.results,
              numPages |-> body.last_page]

\* the request data of one pass of the loop: `data` is computed for the
\* page and then the first page's requestData is sent
pagedLoopData(firstData, n) ==
    LET data == unionRequestData(PageData(n), firstData).data
    IN  firstData

\* the earlier revision sends the data computed for the loop variable
aspyPagedLoopData(kw, n) ==
    LET data == aspyUnionRequestData(PageData(n), kw).data
    IN  data

\* list.extend with the records of one more response
extend(full, body) ==
    IF subscript(body, "results").kind = "raise"
    THEN [result |-> Raise(subscript(body, "results").error), fullSet |-> full]
    ELSE [result |-> Return(None), fullSet |-> full \o body.results]

\* range(1, numPages) has a value after n
rangeHasNext(n, last) == n + 1 < last

----------------------------------------------------------------------------
(* allIdsRequestGet *)

AllIds == [k \in {"all_ids"} |-> TRUE]

allIds(body) ==
    IF \A item \in iterate(body) : isinstanceInt(item)
    THEN Return(body) ELSE Raise("NotPaginated")

----------------------------------------------------------------------------
(* The state machine *)

Outcome(op, r) == [op |-> op, kind |-> r.kind, error |-> r.error, body |-> r.body]

NoOutcome == [op |-> "none", kind |-> "none", error |-> "", body |-> None]

NoMerge == [called |-> FALSE, defaultRequestData |-> EmptyData,
            newRequestData |-> EmptyData, after |-> unionRequestData(EmptyData, EmptyData)]

\* the constructor: no session, no sessionId or connection attribute yet
Constructed ==
    /\ variant \in Variants
    /\ session = NoSession
    /\ sessionId = "unset"
    /\ connection = Unset
    /\ pc = "idle"
    /\ kwargs = EmptyData
    /\ requestData = EmptyData
    /\ numPages = 0
    /\ page = 0
    /\ fullSet = <<>>
    /\ sent = <<>>
    /\ recv = <<>>
    /\ outcome = NoOutcome
    /\ everConnected = FALSE
    /\ loginToken = "none"

Init == Constructed /\ merged = NoMerge

\* the caller has seen how the call ended and goes on to its next call; the
\* call's locals and the record of its requests are gone
CallerContinues ==
    /\ pc = "done"
    /\ pc' = "idle"
    /\ kwargs' = EmptyData
    /\ requestData' = EmptyData
    /\ numPages' = 0
    /\ page' = 0
    /\ fullSet' = <<>>
    /\ sent' = <<>>
    /\ recv' = <<>>
    /\ outcome' = NoOutcome
    /\ UNCHANGED <<variant, session, sessionId, connection, everConnected,
                   loginToken, merged>>

Connect ==
    /\ pc = "idle"
    /\ \E response \in Responses(TRUE, EmptyData) :
        LET self == [session |-> session, sessionId |-> sessionId,
                     connection |-> connection]
            after == connect(variant, self, response)
        IN  /\ session' = after.session
            /\ sessionId' = after.sessionId
            /\ connection' = after.connection
            /\ sent' = connectSent
            /\ recv' = <<response>>
            /\ outcome' = Outcome("connect", after.result)
            /\ everConnected' = (everConnected \/ after.result.kind = "return")
            /\ loginToken' = IF after.result.kind = "return"
                             THEN response.body.session ELSE "none"
    /\ pc' = "done"
    /\ UNCHANGED <<variant, kwargs, requestData, numPages, page, fullSet, merged>>

\* one call of _request on behalf of op
Exchange(op, type, data, response) ==
    /\ sent' = requestSent(session, type, data)
    /\ recv' = IF session.exists THEN <<response>> ELSE <<>>
    /\ outcome' = Outcome(op, request(variant, session, type, data, response))

RequestGet ==
    /\ pc = "idle"
    /\ \E data \in CallerParams : \E response \in Responses(FALSE, data) :
        Exchange("requestGet", "get", data, response)
    /\ pc' = "done"
    /\ UNCHANGED <<variant, session, sessionId, connection, kwargs, requestData,
                   numPages, page, fullSet, everConnected, loginToken, merged>>

RequestPost ==
    /\ pc = "idle"
    /\ \E data \in CallerParams : \E response \in Responses(FALSE, data) :
        Exchange("requestPost", "post", data, response)
    /\ pc' = "done"
    /\ UNCHANGED <<variant, session, sessionId, connection, kwargs, requestData,
                   numPages, page, fullSet, everConnected, loginToken, merged>>

AllIdsRequestGet ==
    /\ pc = "idle"
    /\ \E response \in Responses(FALSE, AllIds) :
        LET r == request(variant, session, "get", AllIds, response)
        IN  /\ sent' = requestSent(session, "get", AllIds)
            /\ recv' = IF session.exists THEN <<response>> ELSE <<>>
            /\ outcome' = Outcome("allIdsRequestGet",
                                  IF r.kind = "raise" THEN r ELSE allIds(r.body))
    /\ pc' = "done"
    /\ UNCHANGED <<variant, session, sessionId, connection, kwargs, requestData,
                   numPages, page, fullSet, everConnected, loginToken, merged>>

\* pagedRequestGet up to and including its first response
PagedRequestGet ==
    /\ pc = "idle"
    /\ \E params \in CallerParams :
        LET first == union(variant, FirstPage, params) IN
        \E response \in Responses(FALSE, first) :
            LET r == request(variant, session, "get", first, response)
                f == IF variant = "aspy" THEN aspyPagedFirst(r.body)
                     ELSE pagedFirst(r.body)
                ends == r.kind = "raise" \/ f.result.kind = "raise"
                            \/ ~rangeHasNext(0, f.numPages)
            IN  /\ kwargs' = params
                /\ requestData' = first
                /\ sent' = requestSent(session, "get", first)
                /\ recv' = IF session.exists THEN <<response>> ELSE <<>>
                /\ fullSet' = IF r.kind = "raise" THEN <<>> ELSE f.fullSet
                /\ numPages' = IF r.kind = "raise" THEN 0 ELSE f.numPages
                /\ page' = 0
                /\ pc' = IF ends THEN "done" ELSE "paged"
                /\ outcome' =
                     IF r.kind = "raise" THEN Outcome("pagedRequestGet", r)
                     ELSE IF f.result.kind = "raise"
                     THEN Outcome("pagedRequestGet", f.result)
                     ELSE IF ends
                     THEN Outcome("pagedRequestGet", Return(List(f.fullSet)))
                     ELSE [NoOutcome EXCEPT !.op = "pagedRequestGet"]
    /\ UNCHANGED <<variant, session, sessionId, connection, everConnected,
                   loginToken, merged>>

\* one pass of the loop over range(1, numPages)
PagedLoop ==
    /\ pc = "paged"
    /\ LET n == page + 1
           data == IF variant = "aspy" THEN aspyPagedLoopData(Kw(kwargs), n)
                   ELSE pagedLoopData(requestData, n)
       IN  \E response \in Responses(FALSE, data) :
            LET r == request(variant, session, "get", data, response)
                e == extend(fullSet, r.body)
                ends == r.kind = "raise" \/ e.result.kind = "raise"
                            \/ ~rangeHasNext(n, numPages)
            IN  /\ page' = n
                /\ sent' = sent \o requestSent(session, "get", data)
                /\ recv' = recv \o <<response>>
                /\ fullSet' = IF r.kind = "raise" THEN fullSet ELSE e.fullSet
                /\ pc' = IF ends THEN "done" ELSE "paged"
                /\ outcome' =
                     IF r.kind = "raise" THEN Outcome("pagedRequestGet", r)
                     ELSE IF e.result.kind = "raise"
                     THEN Outcome("pagedRequestGet", e.result)
                     ELSE IF ends
                     THEN Outcome("pagedRequestGet", Return(List(e.fullSet)))
                     ELSE outcome
    /\ UNCHANGED <<variant, session, sessionId, connection, kwargs, requestData,
                   numPages, everConnected, loginToken, merged>>

Next ==
    \/ Connect
    \/ RequestGet
    \/ RequestPost
    \/ AllIdsRequestGet
    \/ PagedRequestGet
    \/ PagedLoop
    \/ CallerContinues

Spec == Init /\ [][Next]_vars

----------------------------------------------------------------------------
(* The standalone parameter merge *)

MergeInit ==
    /\ Constructed
    /\ \E d \in Mappings(MergeKeys, MergeVals) :
       \E o \in Mappings(MergeKeys, MergeVals) :
            merged = [NoMerge EXCEPT !.defaultRequestData = d,
                                     !.newRequestData = o]

UnionRequestData ==
    /\ ~merged.called
    /\ merged' = [merged EXCEPT
            !.called = TRUE,
            !.after = IF variant = "aspy"
                      THEN aspyUnionRequestData(merged.defaultRequestData,
                                                Kw(merged.newRequestData))
                      ELSE unionRequestData(merged.defaultRequestData,
                                            merged.newRequestData)]
    /\ UNCHANGED <<variant, session, sessionId, connection, pc, kwargs,
                   requestData, numPages, page, fullSet, sent, recv, outcome,
                   everConnected, loginToken>>

MergeNext == UnionRequestData

SpecMerge == MergeInit /\ [][MergeNext]_vars

----------------------------------------------------------------------------
(* Properties *)

\* the call that ran last has ended
Ended(op) == pc = "done" /\ outcome.op = op

\* the call that ran last has ended, and it ran on a client whose latest
\* connect() succeeded
EndedLoggedIn(op) == Ended(op) /\ loginToken # "none"

\* the server answered the i-th request of the call with a status
Answered(i) == i <= Len(recv) /\ recv[i].reach

\* C1: after a connect() that succeeded with token T, every request that
\* requestGet, requestPost, pagedRequestGet or allIdsRequestGet puts on the
\* wire carries exactly T in the session header, until the next connect().
C1_RequestsCarryLoginToken ==
    loginToken # "none" =>
        \A i \in 1..Len(sent) : ~sent[i].login => sent[i].header = loginToken

C1_Witness ==
    /\ loginToken = "tokB"
    /\ outcome.op = "pagedRequestGet"
    /\ Len(sent) >= 2
    /\ \A i \in 1..Len(sent) : sent[i].header = "tokB"

\* C2: no request other than the login POST reaches the server unless some
\* earlier connect() on the client completed successfully.
C2_NoRequestWithoutLogin ==
    \A i \in 1..Len(sent) : (~sent[i].login /\ Answered(i)) => everConnected

\* the page parameters of the requests of the call, in the order sent
PagesSent == [i \in 1..Len(sent) |-> sent[i].data["page"]]

\* C3: for a first response reporting last_page = L, pagedRequestGet
\* requests exactly the pages 1, 2, ..., L, each once and in increasing
\* order, the request for page N carrying page=N merged with the caller's
\* params (stated here for a caller that passes no page of its own).
C3_PagesOneToLast ==
    (EndedLoggedIn("pagedRequestGet") /\ outcome.kind = "return"
        /\ "page" \notin DOMAIN kwargs) =>
            /\ PagesSent = [i \in 1..numPages |-> str(i)]
            /\ \A i \in 1..Len(sent) :
                    sent[i].data = update(kwargs, PageData(i))

RECURSIVE PagesUpTo(_)
PagesUpTo(n) == IF n = 0 THEN <<>> ELSE PagesUpTo(n - 1) \o PageRecords(n)

\* C4: when every page fetch succeeds, pagedRequestGet returns the
\* concatenation, in page order, of the server's results for the pages
\* 1..last_page: every record once, none duplicated or missing (stated here
\* for a caller that passes no page of its own).
C4_ResultIsConcatenation ==
    (EndedLoggedIn("pagedRequestGet") /\ outcome.kind = "return"
        /\ "page" \notin DOMAIN kwargs) =>
            outcome.body = List(PagesUpTo(numPages))

\* the error classes of the four status codes the client names
NamedErrors ==
    {"AspaceBadRequest", "AspaceForbidden", "AspaceNotFound", "AspaceError"}

StatusError(response) ==
    CASE response.status_code = 400 -> "AspaceBadRequest"
      [] response.status_code = 403 -> "AspaceForbidden"
      [] response.status_code = 404 -> "AspaceNotFound"
      [] OTHER -> "AspaceError"

\* the branches that parse the body before they raise
ParsesBody(v, response) ==
    v = "archivesspace" \/ response.status_code \notin {404, 500}

C6_MergeOverrideWins ==
    merged.called =>
        LET D == merged.defaultRequestData
            O == merged.newRequestData
            R == merged.after.data
        IN  /\ DOMAIN R = DOMAIN D \cup DOMAIN O
            /\ \A k \in DOMAIN O : R[k] = O[k]
            /\ \A k \in DOMAIN D \ DOMAIN O : R[k] = D[k]
            /\ DOMAIN D \cap DOMAIN O = {} => R = union(variant, O, D)
            /\ merged.after.defaultRequestData = D
            /\ merged.after.newRequestData = O

C6_Witness ==
    /\ merged.called
    /\ DOMAIN merged.defaultRequestData = {"page", "q"}
    /\ DOMAIN merged.newRequestData = {"page"}
    /\ merged.defaultRequestData["page"] # merged.newRequestData["page"]
    /\ merged.after.data["page"] = merged.newRequestData["page"]

\* C7: if the 200 response to the first request of pagedRequestGet is an
\* object without `results` or without `last_page`, the call fails with
\* NotPaginated and issues no further GET.
C7_NotPaginated ==
    (EndedLoggedIn("pagedRequestGet") /\ Answered(1) /\ recv[1].status_code = 200
        /\ recv[1].body.type = "dict"
        /\ ~({"results", "last_page"} \subseteq recv[1].body.keys)) =>
            /\ outcome.kind = "raise"
            /\ outcome.error = "NotPaginated"
            /\ Len(sent) = 1

\* C8: allIdsRequestGet issues exactly one GET carrying {all_ids: true};
\* a response sequence of integers is returned unchanged, and one with an
\* element that is not an integer fails with NotPaginated.
C8_AllIds ==
    EndedLoggedIn("allIdsRequestGet") =>
        /\ Len(sent) = 1
        /\ sent[1].method = "get"
        /\ sent[1].data = AllIds
        /\ (Answered(1) /\ recv[1].status_code = 200
                /\ recv[1].body.type = "list") =>
            IF \A i \in 1..Len(recv[1].body.items) :
                    recv[1].body.items[i].type = "int"
            THEN outcome.kind = "return" /\ outcome.body = recv[1].body
            ELSE outcome.kind = "raise" /\ outcome.error = "NotPaginated"

RejectedLogin ==
    Ended("connect") /\ Answered(1) /\ recv[1].status_code # 200

C10_ConnectionError ==
    \A op \in {"connect", "requestGet", "requestPost"} :
        (Ended(op) /\ Len(recv) >= 1 /\ ~recv[1].reach) =>
            /\ outcome.kind = "raise"
            /\ outcome.error = "ConnectionError"
            /\ Len(sent) = 1

\* C11 as stated: the first request of pagedRequestGet always carries
\* page=1, also when the caller's params hold a page of their own, and
\* every other key of the caller is passed through unchanged.
C11_Original ==
    (pc \in {"paged", "done"} /\ outcome.op = "pagedRequestGet"
        /\ loginToken # "none" /\ Len(sent) >= 1) =>
            /\ sent[1].data["page"] = "1"
            /\ \A k \in DOMAIN kwargs \ {"page"} : sent[1].data[k] = kwargs[k]

\* C11 (amended): the first request of pagedRequestGet carries the caller's
\* own page when the caller's params hold one and page=1 otherwise (passed
\* data overrides the default); every other key of the caller is passed
\* through unchanged and no further key is added.
C11_FirstRequestPage ==
    (pc \in {"paged", "done"} /\ outcome.op = "pagedRequestGet"
        /\ Len(sent) >= 1) =>
            /\ DOMAIN sent[1].data = DOMAIN kwargs \cup {"page"}
            /\ sent[1].data["page"] =
                 IF "page" \in DOMAIN kwargs THEN kwargs["page"] ELSE "1"
            /\ \A k \in DOMAIN kwargs \ {"page"} : sent[1].data[k] = kwargs[k]

C11_Witness ==
    /\ Ended("pagedRequestGet")
    /\ loginToken # "none"
    /\ DOMAIN kwargs = {"page", "q"}
    /\ sent[1].data["page"] = "2"
    /\ sent[1].data["q"] = "x"

\* the server did not deliver the i-th fetch: the transport failed or the
\* status is not 200
FetchFailed(i) == ~recv[i].reach \/ recv[i].status_code # 200

\* C12: if a page fetch of pagedRequestGet fails (status other than 200 or
\* transport failure), the call ends with that fetch's error, returns no
\* partial result, and issues no request after it.
C12_FailedFetchEndsCall ==
    (outcome.op = "pagedRequestGet" /\ pc \in {"paged", "done"}) =>
        \A i \in 1..Len(recv) : FetchFailed(i) =>
            /\ pc = "done"
            /\ i = Len(recv)
            /\ Len(sent) = i
            /\ outcome.kind = "raise"
            /\ outcome.body = None
            /\ outcome.error =
                 IF ~recv[i].reach THEN "ConnectionError"
                 ELSE IF ~recv[i].body.json /\ ParsesBody(variant, recv[i])
                 THEN "JSONDecodeError" ELSE StatusError(recv[i])

C12_Witness ==
    /\ Ended("pagedRequestGet")
    /\ loginToken # "none"
    /\ Len(recv) = 2
    /\ numPages = 3
    /\ recv[2].reach
    /\ recv[2].status_code = 500
    /\ fullSet # <<>>
    /\ outcome.error = "AspaceError"

\* C13: after any sequence of successful and failed connect() calls the
\* stored sessionId and the session header agree: whenever a sessionId is
\* stored, the session's header, and so every request sent, carries it.
C13_SessionIdMatchesHeader ==
    sessionId # "unset" =>
        /\ session.header = sessionId
        /\ \A i \in 1..Len(sent) : ~sent[i].login => sent[i].header = sessionId

====
